---- MODULE Spec2Model ----
\* Model of crates/oxc_linter/src/rules/oxc/no_eslint_disable_comments.rs:
\* the rule NoEslintDisableComments (run_once) and the scanner
\* find_eslint_comment_directive.  Texts are sequences of one-character
\* strings; offsets are 0-based byte offsets as in the Rust source (all
\* characters of the alphabet are ASCII, one byte each).
EXTENDS Integers, Sequences, FiniteSets, TLC

VARIABLES source, raw, single_line, pc, pass, directive, span, assert_ok,
          diagnostic, replacement, replacement_nl

vars == <<source, raw, single_line, pc, pass, directive, span, assert_ok,
          diagnostic, replacement, replacement_nl>>

----------------------------------------------------------------------------
\* Bounds

MaxAtoms == 4
MaxPasses == 2

----------------------------------------------------------------------------
\* Option<T>: None is the empty sequence, Some(x) the one-element sequence.

None == <<>>
Some(x) == <<x>>
unwrap_or(o, d) == IF o = None THEN d ELSE o[1]

\* s[a..b] with 0-based, end-exclusive byte offsets.
Slice(s, a, b) == SubSeq(s, a + 1, b)

----------------------------------------------------------------------------
\* String literals of the source.

prefix == <<"e","s","l","i","n","t","-">>
disable == <<"d","i","s","a","b","l","e">>
disable_next_line == disable \o <<"-","n","e","x","t","-","l","i","n","e">>
directives == <<disable, disable_next_line>>
eslint_disable == prefix \o disable
oxlint_disable == <<"o","x","l","i","n","t","-">> \o disable
eslint_disable_next_line == prefix \o disable_next_line
oxlint_disable_next_line == <<"o","x","l","i","n","t","-">> \o disable_next_line

using_eslint_disable_comment == "Prefer oxlint-disable instead of eslint-disable"
using_eslint_disable_next_line_comment ==
    "Prefer oxlint-disable-next-line instead of eslint-disable-next-line"
NoDiagnostic == "none"

----------------------------------------------------------------------------
\* Input texts: concatenations of at most MaxAtoms atoms.

Atoms == { <<" ">>, <<"\n">>, <<"*">>, <<"/">>, <<"x">>,
           prefix, eslint_disable, <<"-","n","e","x","t","-","l","i","n","e">>,
           oxlint_disable, <<"d","i","s","a","b","l">> }

RECURSIVE Flatten(_)
Flatten(a) == IF a = <<>> THEN <<>> ELSE Head(a) \o Flatten(Tail(a))

Texts == { Flatten(a) : a \in UNION { [1..n -> Atoms] : n \in 0..MaxAtoms } }

----------------------------------------------------------------------------
\* str::find: byte offset of the first occurrence of needle in hay.

RECURSIVE find_from(_, _, _)
find_from(hay, needle, i) ==
    IF i + Len(needle) > Len(hay) THEN None
    ELSE IF Slice(hay, i, i + Len(needle)) = needle THEN Some(i)
    ELSE find_from(hay, needle, i + 1)

RECURSIVE rfind_from(_, _, _)
rfind_from(hay, needle, i) ==
    IF i < 0 THEN None
    ELSE IF Slice(hay, i, i + Len(needle)) = needle THEN Some(i)
    ELSE rfind_from(hay, needle, i - 1)

rfind(hay, needle) == rfind_from(hay, needle, Len(hay) - Len(needle))

find(hay, needle) == find_from(hay, needle, 0)

\* str::get(a..b): None when the range leaves the string.
get(s, a, b) == IF a <= b /\ b <= Len(s) THEN Some(Slice(s, a, b)) ELSE None

\* char::is_whitespace restricted to ASCII.
is_whitespace(c) == c \in {" ", "\t", "\n", "\r"}

\* The loop over char_indices: at every '\n' last_line_start becomes the
\* index of the following character, or None when there is none.
RECURSIVE last_line_start_from(_, _, _)
last_line_start_from(s, i, acc) ==
    IF i >= Len(s) THEN acc
    ELSE last_line_start_from(s, i + 1,
            IF s[i + 1] = "\n"
            THEN (IF i + 1 < Len(s) THEN Some(i + 1) ELSE None)
            ELSE acc)

last_line_start(s) == last_line_start_from(s, 0, None)

multi_len(s) == unwrap_or(last_line_start(s), 0)

line(s) == Slice(s, multi_len(s), Len(s))

\* let index = line.find(prefix)?
find_prefix_zero(l) == Some(unwrap_or(find(l, prefix), 0))

find_prefix_last(l) == rfind(l, prefix)

find_prefix(l) == find(l, prefix)

allowed_delimiter_any(c, sl) == c = "*" \/ c = "/"

allowed_delimiter(c, sl) == IF sl THEN c = "/" ELSE (c = "*" \/ c = "/")

anchored_some(l, index, sl) ==
    \E i \in 1..index : is_whitespace(l[i]) \/ allowed_delimiter(l[i], sl)

anchored(l, index, sl) ==
    \A i \in 1..index : is_whitespace(l[i]) \/ allowed_delimiter(l[i], sl)

directive_start_line(ml, index) == index + Len(prefix)

directive_start(ml, index) == ml + index + Len(prefix)

\* The for loop over ["disable", "disable-next-line"]: the first entry that
\* matches at start returns.
matching_directives(l, start) ==
    { k \in 1..Len(directives) :
        get(l, start, start + Len(directives[k])) = Some(directives[k]) }

Min(S) == CHOOSE x \in S : \A y \in S : x <= y

scan(s, sl) ==
    LET ml == multi_len(s)
        l == line(s)
        index == find_prefix(l)
        no == [directive |-> None, span |-> None, assert_ok |-> TRUE]
    IN  IF index = None THEN no
        ELSE IF ~anchored(l, index[1], sl) THEN no
        ELSE LET start == index[1] + Len(prefix)
                 m == matching_directives(l, start)
             IN  IF m = {} THEN no
                 ELSE LET d == directives[Min(m)]
                          st == directive_start(ml, index[1])
                          en == st + Len(d)
                          got == Slice(s, st, en)
                      IN  [directive |-> Some(got),
                           span |-> Some(<<st, en>>),
                           assert_ok |-> got \in {disable, disable_next_line}]

find_eslint_comment_directive(s, sl) == scan(s, sl).directive

----------------------------------------------------------------------------
\* cow_replace: every non-overlapping occurrence of from, left to right.

cow_replace_first(s, from, to) ==
    LET i == find(s, from)
    IN  IF i = None THEN s
        ELSE Slice(s, 0, i[1]) \o to \o Slice(s, i[1] + Len(from), Len(s))

RECURSIVE cow_replace(_, _, _)
cow_replace(s, from, to) ==
    LET i == find(s, from)
    IN  IF i = None THEN s
        ELSE Slice(s, 0, i[1]) \o to
             \o cow_replace(Slice(s, i[1] + Len(from), Len(s)), from, to)

fix_disable_swapped(s) == cow_replace(s, oxlint_disable, eslint_disable)

fix_disable(s) == cow_replace(s, eslint_disable, oxlint_disable)

fix_disable_next_line_short(s) ==
    cow_replace(s, eslint_disable_next_line, oxlint_disable)

fix_disable_next_line(s) ==
    cow_replace(s, eslint_disable_next_line, oxlint_disable_next_line)

\* The match on the returned directive in run_once.
run_once_diagnostic(d) ==
    IF d = Some(disable) THEN using_eslint_disable_comment
    ELSE IF d = Some(disable_next_line) THEN using_eslint_disable_next_line_comment
    ELSE NoDiagnostic

run_once_fix(s, d) ==
    IF d = Some(disable) THEN Some(fix_disable(s))
    ELSE IF d = Some(disable_next_line) THEN Some(fix_disable_next_line(s))
    ELSE None

----------------------------------------------------------------------------
\* Comments the lint host can hand to the rule: the content of a line
\* comment holds no line break, the content of a block comment no "*/".

IsComment(s, sl) ==
    IF sl THEN \A i \in 1..Len(s) : s[i] # "\n"
    ELSE \A i \in 1..(Len(s) - 1) : ~(s[i] = "*" /\ s[i + 1] = "/")

Init ==
    /\ source \in Texts
    /\ single_line \in BOOLEAN
    /\ IsComment(source, single_line)
    /\ raw = source
    /\ pc = "lint"
    /\ pass = 1
    /\ directive = None
    /\ span = None
    /\ assert_ok = TRUE
    /\ diagnostic = NoDiagnostic
    /\ replacement = None
    /\ replacement_nl = None

\* run_once on the comment: scan, then report with the suggested fix.
RunOnce ==
    /\ pc = "lint"
    /\ LET r == scan(raw, single_line)
       IN  /\ directive' = r.directive
           /\ span' = r.span
           /\ assert_ok' = r.assert_ok
           /\ IF r.assert_ok
              THEN /\ diagnostic' = run_once_diagnostic(r.directive)
                   /\ replacement' = run_once_fix(raw, r.directive)
                   /\ pc' = "reported"
              ELSE /\ diagnostic' = NoDiagnostic
                   /\ replacement' = None
                   /\ pc' = "panic"
    /\ UNCHANGED <<source, raw, single_line, pass, replacement_nl>>

\* The host applies the suggested fix at the comment's span and lints again.
ApplyFix ==
    /\ pc = "reported"
    /\ replacement # None
    /\ pass < MaxPasses
    /\ raw' = replacement[1]
    /\ pass' = pass + 1
    /\ pc' = "lint"
    /\ directive' = None
    /\ span' = None
    /\ assert_ok' = TRUE
    /\ diagnostic' = NoDiagnostic
    /\ replacement' = None
    /\ UNCHANGED <<source, single_line, replacement_nl>>

Next == RunOnce \/ ApplyFix

Spec == Init /\ [][Next]_vars

----------------------------------------------------------------------------
\* The scanner and the two fix closures as pure functions over any text.

InitFn ==
    /\ source \in Texts
    /\ single_line \in BOOLEAN
    /\ raw = source
    /\ pc = "call"
    /\ pass = 1
    /\ directive = None
    /\ span = None
    /\ assert_ok = TRUE
    /\ diagnostic = NoDiagnostic
    /\ replacement = None
    /\ replacement_nl = None

CallFind ==
    /\ pc = "call"
    /\ LET r == scan(raw, single_line)
       IN  /\ directive' = r.directive
           /\ span' = r.span
           /\ assert_ok' = r.assert_ok
    /\ pc' = "returned"
    /\ UNCHANGED <<source, raw, single_line, pass, diagnostic, replacement,
                   replacement_nl>>

CallRewrite ==
    /\ pc = "returned"
    /\ directive # None
    /\ replacement' = Some(fix_disable(raw))
    /\ replacement_nl' = Some(fix_disable_next_line(raw))
    /\ pc' = "rewritten"
    /\ UNCHANGED <<source, raw, single_line, pass, directive, span, assert_ok,
                   diagnostic>>

NextFn == CallFind \/ CallRewrite

SpecFn == InitFn /\ [][NextFn]_vars

----------------------------------------------------------------------------
\* Vocabulary of the properties, stated over positions of the text.

Occurs(s, pat, i) ==
    /\ i >= 0
    /\ i + Len(pat) <= Len(s)
    /\ \A k \in 1..Len(pat) : s[i + k] = pat[k]

OccStarts(s, pat) == { i \in 0..Len(s) : Occurs(s, pat, i) }

Contains(s, pat) == OccStarts(s, pat) # {}

FirstOcc(s, pat, i) ==
    Occurs(s, pat, i) /\ \A j \in 0..(i - 1) : ~Occurs(s, pat, j)

Blank(c) == c \in {" ", "\t", "\n", "\r"}

AllowedBefore(c, sl) == Blank(c) \/ c = "/" \/ (~sl /\ c = "*")

\* The part of the text after its final line break.
LastBreak(s) ==
    IF \E i \in 1..Len(s) : s[i] = "\n"
    THEN CHOOSE i \in 1..Len(s) :
            s[i] = "\n" /\ \A j \in (i + 1)..Len(s) : s[j] # "\n"
    ELSE 0

LastLine(s) == SubSeq(s, LastBreak(s) + 1, Len(s))

\* r is s with the two leading characters "es" of the token at every
\* position of P replaced by "ox" and every other character kept.
Renamed(r, s, P) ==
    /\ Len(r) = Len(s)
    /\ \A i \in 0..(Len(s) - 1) :
          r[i + 1] = IF i \in P THEN "o"
                     ELSE IF (i - 1) \in P THEN "x"
                     ELSE s[i + 1]

Reported == pc = "reported" /\ pass = 1
Returned == pc \in {"returned", "rewritten"}

----------------------------------------------------------------------------
\* C1: a comment whose last line has "eslint-" anchored and followed by
\* "disable-next-line" is classified as disable-next-line and gets the
\* disable-next-line diagnostic.
AnchoredNextLineOn(l, sl) ==
    \E i \in 0..Len(l) :
        /\ FirstOcc(l, prefix, i)
        /\ \A k \in 1..i : AllowedBefore(l[k], sl)
        /\ Occurs(l, disable_next_line, i + Len(prefix))

AnchoredNextLine(s, sl) == AnchoredNextLineOn(LastLine(s), sl)

C1_NextLineKind ==
    (Reported /\ AnchoredNextLine(source, single_line))
        => /\ directive = Some(disable_next_line)
           /\ diagnostic = using_eslint_disable_next_line_comment

----------------------------------------------------------------------------
\* C2 (as stated): the fix replaces exactly the first occurrence of the
\* token of the branch taken; every other character, further occurrences
\* included, is unchanged.
TokenOf(d) == IF d = Some(disable_next_line) THEN eslint_disable_next_line
              ELSE eslint_disable

Greedy(s, pat, P) ==
    /\ P \subseteq OccStarts(s, pat)
    /\ \A p \in P : \A q \in P : p < q => p + Len(pat) <= q
    /\ \A i \in OccStarts(s, pat) \ P :
          \E p \in P : p < i /\ i < p + Len(pat)

----------------------------------------------------------------------------
\* C3: a text whose anchored "eslint-disable" directives all sit on lines
\* followed by a line break (none on the last line) yields no match.
AnchoredAt(s, i, sl) ==
    /\ Occurs(s, eslint_disable, i)
    /\ \E b \in 0..i :
          /\ b = 0 \/ s[b] = "\n"
          /\ \A k \in (b + 1)..i : s[k] # "\n" /\ AllowedBefore(s[k], sl)

OnLastLine(s, i) == \A k \in (i + 1)..Len(s) : s[k] # "\n"

C3_OnlyLastLine ==
    ( /\ Reported
      /\ \E i \in 0..Len(source) : AnchoredAt(source, i, single_line)
      /\ \A i \in 0..Len(source) :
            AnchoredAt(source, i, single_line) => ~OnLastLine(source, i) )
        => directive = None

----------------------------------------------------------------------------
\* C4: when a character that is neither whitespace nor an allowed delimiter
\* precedes the first "eslint-" on the inspected line there is no match; a
\* "*" there is refused for a line comment and accepted for a block comment.
PrecededByDisallowedOn(l, sl) ==
    \E i \in 0..Len(l) :
        /\ FirstOcc(l, prefix, i)
        /\ \E k \in 1..i : ~AllowedBefore(l[k], sl)

PrecededByDisallowed(s, sl) == PrecededByDisallowedOn(line(s), sl)

StarThenDirectiveOn(l) ==
    \E i \in 1..Len(l) :
        /\ FirstOcc(l, prefix, i)
        /\ \A k \in 1..i : l[k] = "*" \/ Blank(l[k])
        /\ \E k \in 1..i : l[k] = "*"
        /\ Occurs(l, disable, i + Len(prefix))

StarThenDirective(s) == StarThenDirectiveOn(line(s))

C4_Anchoring ==
    Returned =>
        /\ PrecededByDisallowed(source, single_line) => directive = None
        /\ StarThenDirective(source) => (directive = None <=> single_line)

C4_Witness ==
    /\ Returned
    /\ single_line
    /\ StarThenDirective(source)
    /\ directive = None

----------------------------------------------------------------------------
\* C5: linting the fixed comment again reports nothing.
C5_FixIsIdempotent ==
    (pc = "reported" /\ pass >= 2)
        => /\ directive = None
           /\ diagnostic = NoDiagnostic
           /\ replacement = None

C5_Witness ==
    /\ pc = "reported"
    /\ pass = 2
    /\ Contains(raw, oxlint_disable)
    /\ raw # source

----------------------------------------------------------------------------
\* C6: a returned match lies inside the text, the text at its range is the
\* keyword returned, one of "disable" / "disable-next-line", and the debug
\* assertion holds.
C6_RangeReadsKeyword ==
    /\ assert_ok
    /\ (Returned /\ directive # None) =>
          /\ span # None
          /\ 0 <= span[1][1]
          /\ span[1][1] <= span[1][2]
          /\ span[1][2] <= Len(source)
          /\ \E kw \in {disable, disable_next_line} :
                /\ span[1][2] - span[1][1] = Len(kw)
                /\ Occurs(source, kw, span[1][1])
                /\ directive = Some(kw)

C6_Witness ==
    /\ Returned
    /\ directive # None
    /\ span[1][1] > Len(prefix) + 1
    /\ \E i \in 1..span[1][1] : source[i] = "\n"

----------------------------------------------------------------------------
\* C7 (as stated): when the matched directive reads "disable-next-line",
\* replacing the short token and replacing the long token give one text.
MatchedNextLine ==
    /\ pc = "rewritten"
    /\ span # None
    /\ Occurs(source, disable_next_line, span[1][1])

C7_KindIndependent == MatchedNextLine => replacement = replacement_nl

\* C7 (amended): the two replacements agree when the matched occurrence is
\* the only occurrence of "eslint-disable" in the text.
C7_KindIndependentSingle ==
    (MatchedNextLine /\ Cardinality(OccStarts(source, eslint_disable)) = 1)
        => replacement = replacement_nl

C7_Witness ==
    /\ MatchedNextLine
    /\ Cardinality(OccStarts(source, eslint_disable)) = 1
    /\ replacement = replacement_nl
    /\ replacement # Some(source)

----------------------------------------------------------------------------
\* C8 (as stated): whitespace, then "eslint-disable" or
\* "eslint-disable-next-line", then arguments without the token: the comment
\* is reported and the fix only renames "eslint-" to "oxlint-".
DirectiveShape(s, w, kw, nobreak) ==
    /\ \A k \in 1..w : Blank(s[k])
    /\ Occurs(s, prefix \o kw, w)
    /\ ~Contains(Slice(s, w + Len(prefix \o kw), Len(s)), eslint_disable)
    /\ nobreak => \A k \in (w + 1)..Len(s) : s[k] # "\n"

OnlyNamespaceRenamed(r, s, w) ==
    r = Slice(s, 0, w) \o <<"o", "x">> \o Slice(s, w + 2, Len(s))

C8_DirectiveRenamed ==
    Reported =>
        \A w \in 0..Len(source) : \A kw \in {disable, disable_next_line} :
            DirectiveShape(source, w, kw, FALSE)
                => /\ diagnostic # NoDiagnostic
                   /\ replacement # None
                   /\ OnlyNamespaceRenamed(replacement[1], source, w)

\* C8 (amended): the same, provided no line break follows the directive and
\* "eslint-disable" occurs once in the text.
C8_DirectiveRenamedOneLine ==
    Reported =>
        \A w \in 0..Len(source) : \A kw \in {disable, disable_next_line} :
            ( /\ DirectiveShape(source, w, kw, TRUE)
              /\ Cardinality(OccStarts(source, eslint_disable)) = 1 )
                => /\ diagnostic # NoDiagnostic
                   /\ replacement # None
                   /\ OnlyNamespaceRenamed(replacement[1], source, w)

C8_Witness ==
    /\ Reported
    /\ \E w \in 1..Len(source) :
          /\ DirectiveShape(source, w, disable, TRUE)
          /\ w + Len(eslint_disable) < Len(source)
          /\ replacement # None
          /\ OnlyNamespaceRenamed(replacement[1], source, w)

----------------------------------------------------------------------------
\* C9: a text without "eslint-" yields no match, no diagnostic and no fix,
\* for line and block comments alike.
C9_NoPrefixNoMatch ==
    (pc = "reported" /\ ~Contains(raw, prefix))
        => /\ directive = None
           /\ diagnostic = NoDiagnostic
           /\ replacement = None

C9_Witness ==
    /\ Reported
    /\ ~Contains(raw, prefix)
    /\ Contains(raw, oxlint_disable)
    /\ directive = None

----------------------------------------------------------------------------
\* C10: there is a match exactly when the first "eslint-" on the inspected
\* line exists, has only whitespace or allowed delimiters before it and is
\* directly followed by "disable"; nothing is required after the keyword and
\* no later occurrence is considered.
MatchExpectedOn(l, sl) ==
    \E i \in 0..Len(l) :
        /\ FirstOcc(l, prefix, i)
        /\ \A k \in 1..i : AllowedBefore(l[k], sl)
        /\ Occurs(l, disable, i + Len(prefix))

MatchExpected(s, sl) == MatchExpectedOn(line(s), sl)

====
